---- MODULE Spec2Model ----
(***************************************************************************)
(* Model of jb4_log_plotter.py: the CSV reader (find_header_line,          *)
(* read_jb4_csv), the column resolver (resolve_columns), the nearest       *)
(* sample lookup (nearest_index) and the cursor callbacks of main()        *)
(* (on_move, on_leave).                                                    *)
(*                                                                         *)
(* Conventions.  Indices are 0-based as in the Python source; Get(s, i)    *)
(* reads a 0-based index of a TLA+ sequence.  Timestamps and channel       *)
(* values are integers (a log in units of half a second maps to them).     *)
(* A column name is a sequence of tokens, each a word or a single space    *)
(* " ", so that the whitespace clean-up of read_jb4_csv is computed.       *)
(* A CSV cell of the timestamp column is <<"num", n>> (the decimal text of *)
(* n), <<"txt">> (text that is no number) or <<>> (an empty field).        *)
(***************************************************************************)
EXTENDS Integers, Sequences, FiniteSets, TLC

VARIABLES
    file,                 \* the CSV file picked: [lines, header, data]
    pc,                   \* position of main(): start, read, resolved, shown, error
    err,                  \* the exception that ended main(), <<>> if none
    header_line,          \* read_jb4_csv: result of find_header_line, -1 before
    columns,              \* df.columns after the clean-up
    df,                   \* rows of the DataFrame: [line, timestamp]
    colmap,               \* result of resolve_columns, <<>> before
    t,                    \* main: df["timestamp"].to_numpy()
    vlines,               \* one vertical line per subplot: [x, visible]
    markers,              \* one marker per subplot: [data, visible]
    value_labels,         \* one text per subplot: [text, position, visible]
    boost_extra_markers,  \* markers of Boost2 and Target
    boost_extra_labels,   \* annotations of Boost2 and Target
    pedal_extra_markers,  \* marker of Throttle
    pedal_extra_labels,   \* annotation of Throttle
    info_text,            \* figure text: <<>> for "", else <<x_snap, idx>>
    event,                \* the last event delivered to a callback
    call                  \* a direct call of nearest_index: [x_arr, x, ret]

vars == <<file, pc, err, header_line, columns, df, colmap, t, vlines, markers,
          value_labels, boost_extra_markers, boost_extra_labels,
          pedal_extra_markers, pedal_extra_labels, info_text, event, call>>

cursorVars == <<vlines, markers, value_labels, boost_extra_markers,
                boost_extra_labels, pedal_extra_markers, pedal_extra_labels,
                info_text>>

(***************************************************************************)
(* Bounds of the model.                                                    *)
(***************************************************************************)
MaxLines == 4     \* physical lines of a file
MaxArr == 3       \* length of x_arr in a direct call of nearest_index
MaxTick == 2      \* sample times of a direct call are 0, 4, .., 4 * MaxTick

(***************************************************************************)
(* Helpers.                                                                *)
(***************************************************************************)
Get(s, i) == s[i + 1]

Range(s) == {s[i] : i \in 1..Len(s)}

SeqsUpTo(S, n) == UNION {[1..k -> S] : k \in 0..n}

Ascending(s) == \A i \in 1..Len(s) - 1 : s[i] <= s[i + 1]

\* The column names of the source, as token sequences.
N_timestamp == <<"timestamp">>
N_RPM == <<"RPM">>
N_Boost == <<"Boost">>
N_ECU_Boost == <<"ECU", " ", "Boost">>
N_Boost2 == <<"Boost2">>
N_Target == <<"Target">>
N_Pedal == <<"Pedal">>
N_Throttle == <<"Throttle">>
N_AFR == <<"AFR">>
N_IAT == <<"IAT">>
N_Speed == <<"Speed">>
N_GPS_Speed == <<"GPS", " ", "Speed">>

PLOTS == <<N_RPM, N_Boost, N_Pedal, N_AFR, N_IAT, N_Speed>>

(***************************************************************************)
(* Input files.                                                            *)
(***************************************************************************)
\* The numbers a timestamp field can hold.
TimeCells == {<<"num", 0>>, <<"num", 4>>}

\* A physical line: text whose first field is no number and does not start
\* with "timestamp" (a preamble line, or a row with an unparsable
\* timestamp), an empty line, a line starting with "timestamp" (its fields
\* are file.header), or a delimited row whose timestamp field is the
\* number ts.
LineSet ==
    {[kind |-> "text", ts |-> <<"txt">>], [kind |-> "blank", ts |-> <<>>],
     [kind |-> "header", ts |-> <<"txt">>]}
    \cup {[kind |-> "row", ts |-> c] : c \in TimeCells}

\* Header rows as written in a file, before the clean-up of the names.
HeaderStd ==
    <<N_timestamp, N_RPM, N_Boost, N_Boost2, N_Target, N_Pedal, N_Throttle,
      N_AFR, N_IAT, N_Speed>>
HeaderEcu ==
    <<N_timestamp, <<" ", "RPM">>, <<" ", "ECU", " ", " ", "Boost", " ">>,
      N_Boost2, N_Target, N_Pedal, <<"Throttle", " ">>, N_AFR, N_IAT,
      <<"GPS", " ", "Speed">>>>
HeaderBoth ==
    <<N_timestamp, N_RPM, N_ECU_Boost, N_Boost, N_Boost2, N_Target, N_Pedal,
      N_Throttle, N_AFR, N_IAT, N_GPS_Speed, N_Speed>>

Without(h, names) == SelectSeq(h, LAMBDA f : f \notin names)

Headers ==
    {HeaderStd, HeaderEcu, HeaderBoth,
     Without(HeaderStd, {N_Boost}),
     Without(HeaderStd, {N_Speed}),
     Without(HeaderStd, {N_Boost2}),
     Without(HeaderStd, {N_Target}),
     Without(HeaderStd, {N_Throttle}),
     Without(HeaderStd, {N_RPM})}

Files ==
    {[lines |-> ls, header |-> h, data |-> d] :
        ls \in SeqsUpTo(LineSet, MaxLines), h \in Headers,
        d \in {"equal", "distinct"}}

\* The cell of column col in the row at physical line `line`: the data set
\* "equal" gives every channel the same value on a line, "distinct" gives
\* every channel its own.
ColumnNumber(col) ==
    CASE col = N_RPM -> 1 [] col = N_Boost -> 2 [] col = N_ECU_Boost -> 2
      [] col = N_Boost2 -> 3 [] col = N_Target -> 4 [] col = N_Pedal -> 5
      [] col = N_Throttle -> 6 [] col = N_AFR -> 7 [] col = N_IAT -> 8
      [] OTHER -> 9

CellValue(f, col, line) ==
    IF f.data = "equal" THEN line + 1 ELSE 10 * (line + 1) + ColumnNumber(col)

(***************************************************************************)
(* find_header_line                                                        *)
(***************************************************************************)
\* line.lstrip().startswith("timestamp")
StartsWithTimestamp(ln) == ln.kind = "header"

\* The 0-based index of the first such line, -1 if the loop ends (the
\* source raises ValueError there).
find_header_line_last(lines) ==
    LET hits == {i \in 0..Len(lines) - 1 : StartsWithTimestamp(Get(lines, i))}
    IN  IF hits = {} THEN -1 ELSE CHOOSE i \in hits : \A j \in hits : j <= i

find_header_line(lines) ==
    LET hits == {i \in 0..Len(lines) - 1 : StartsWithTimestamp(Get(lines, i))}
    IN  IF hits = {} THEN -1 ELSE CHOOSE i \in hits : \A j \in hits : i <= j

(***************************************************************************)
(* read_jb4_csv                                                            *)
(***************************************************************************)
\* The fields of a physical line when it is read as the header row: the
\* file's header fields on a "timestamp" line, the text of the cells on any
\* other line (no such text is "timestamp": the line would start with it).
FieldsOf(f, ln) == IF ln.kind = "header" THEN f.header ELSE <<<<"cell">>>>

\* The physical indices of the lines the CSV parser counts: it skips empty
\* lines (skip_blank_lines=True is the default of pd.read_csv).
CountedLines(lines) ==
    {i \in 0..Len(lines) - 1 : Get(lines, i).kind # "blank"}

\* The physical index of the n-th (0-based) element of the set S of indices.
NthOf(S, n) == CHOOSE i \in S : Cardinality({j \in S : j < i}) = n

\* The elements of the set S of indices as an ascending sequence.
SortedSeq(S) == [n \in 1..Cardinality(S) |-> NthOf(S, n - 1)]

\* pd.read_csv(csv_path, header=header): the header row is the header-th
\* line the parser counts, the rows are the counted lines after it; fewer
\* counted lines than header + 1 is a ParserError.  `used` is the physical
\* index of the header row.
pd_read_csv(f, header) ==
    LET counted == CountedLines(f.lines)
    IN  IF header >= Cardinality(counted)
        THEN [ok |-> FALSE, used |-> -1, columns |-> <<>>, rows |-> <<>>]
        ELSE LET used == NthOf(counted, header)
                 after == SortedSeq({i \in counted : i > used})
             IN  [ok |-> TRUE, used |-> used,
                  columns |-> FieldsOf(f, Get(f.lines, used)),
                  rows |-> [n \in 1..Len(after) |->
                              [line |-> after[n],
                               timestamp |-> Get(f.lines, after[n]).ts]]]

\* str.strip()
RECURSIVE LStrip(_)
LStrip(s) == IF s # <<>> /\ Head(s) = " " THEN LStrip(Tail(s)) ELSE s

RECURSIVE RStrip(_)
RStrip(s) ==
    IF s # <<>> /\ s[Len(s)] = " " THEN RStrip(SubSeq(s, 1, Len(s) - 1)) ELSE s

\* str.replace(r"\s+", " ", regex=True)
RECURSIVE CollapseSpaces(_)
CollapseSpaces(s) ==
    IF Len(s) <= 1 THEN s
    ELSE IF s[1] = " " /\ s[2] = " " THEN CollapseSpaces(Tail(s))
         ELSE <<s[1]>> \o CollapseSpaces(Tail(s))

CleanName(raw) == CollapseSpaces(RStrip(LStrip(raw)))

CleanColumns(cols) == [i \in 1..Len(cols) |-> CleanName(cols[i])]

\* pd.to_numeric(cell, errors="coerce"): <<n>> for the number n, <<>> for NaN.
to_numeric_lenient(cell) ==
    IF Len(cell) = 2 /\ cell[1] = "num" THEN <<cell[2]>> ELSE <<0>>

to_numeric(cell) == IF Len(cell) = 2 /\ cell[1] = "num" THEN <<cell[2]>> ELSE <<>>

\* df["timestamp"] = pd.to_numeric(df["timestamp"], errors="coerce")
CoerceTimestamp(rows) ==
    [i \in 1..Len(rows) |->
        [line |-> rows[i].line, timestamp |-> to_numeric(rows[i].timestamp)]]

\* df.dropna(subset=["timestamp"]).reset_index(drop=True): the rows that
\* have a number, in the order they had, with the number itself.
dropna_sorted(rows) ==
    LET kept == SelectSeq(rows, LAMBDA r : r.timestamp # <<>>)
        Before(a, b) ==
            \/ kept[a].timestamp[1] < kept[b].timestamp[1]
            \/ kept[a].timestamp[1] = kept[b].timestamp[1] /\ a < b
        Rank(a) == Cardinality({b \in 1..Len(kept) : Before(b, a)})
    IN  [n \in 1..Len(kept) |->
            LET a == CHOOSE a \in 1..Len(kept) : Rank(a) = n - 1
            IN  [line |-> kept[a].line, timestamp |-> kept[a].timestamp[1]]]

dropna(rows) ==
    LET kept == SelectSeq(rows, LAMBDA r : r.timestamp # <<>>)
    IN  [i \in 1..Len(kept) |->
            [line |-> kept[i].line, timestamp |-> kept[i].timestamp[1]]]

\* An exception: the function that raised it, its type, the names its
\* message quotes, and <<cols>> when the message lists the available columns
\* cols (<<>> when it does not).
Error(where, kind, names, available) ==
    [where |-> where, kind |-> kind, names |-> names, available |-> available]

NoCursor ==
    /\ UNCHANGED cursorVars
    /\ UNCHANGED <<t, event, call>>

\* main, line 251: df = read_jb4_csv(csv_path)
ReadJb4Csv ==
    /\ pc = "start"
    /\ LET k == find_header_line(file.lines)
           tab == pd_read_csv(file, k)
           cols == CleanColumns(tab.columns)
       IN  /\ header_line' = k
           /\ IF k = -1
              THEN /\ pc' = "error"
                   /\ err' = Error("find_header_line", "ValueError", {N_timestamp}, <<>>)
                   /\ UNCHANGED <<columns, df>>
              ELSE IF ~tab.ok
              THEN /\ pc' = "error"
                   /\ err' = Error("read_csv", "ParserError", {}, <<>>)
                   /\ UNCHANGED <<columns, df>>
              ELSE IF N_timestamp \notin Range(cols)
              THEN /\ pc' = "error"
                   /\ err' = Error("read_jb4_csv", "ValueError", {N_timestamp}, <<Range(cols)>>)
                   /\ columns' = cols
                   /\ UNCHANGED df
              ELSE /\ pc' = "read"
                   /\ columns' = cols
                   /\ df' = dropna(CoerceTimestamp(tab.rows))
                   /\ UNCHANGED err
    /\ UNCHANGED <<file, colmap>>
    /\ NoCursor

(***************************************************************************)
(* resolve_columns                                                         *)
(***************************************************************************)
\* The if/elif chain of one logical name: <<col>> for the first of the two
\* aliases that is available, <<>> when neither is (the else branch).
FirstAlias_swapped(available, first, second) ==
    IF second \in available THEN <<second>>
    ELSE IF first \in available THEN <<first>>
    ELSE <<>>

FirstAlias(available, first, second) ==
    IF first \in available THEN <<first>>
    ELSE IF second \in available THEN <<second>>
    ELSE <<>>

\* The columns expected to exist as-is.
FixedMapping ==
    (N_RPM :> N_RPM) @@ (N_Pedal :> N_Pedal) @@ (N_Throttle :> N_Throttle)
    @@ (N_AFR :> N_AFR) @@ (N_IAT :> N_IAT)

\* [ok, mapping, err]: the mapping returned, or the ValueError raised.
resolve_columns(available) ==
    LET boost == FirstAlias(available, N_Boost, N_ECU_Boost)
        speed == FirstAlias(available, N_Speed, N_GPS_Speed)
    IN  IF boost = <<>>
        THEN [ok |-> FALSE, mapping |-> <<>>,
              err |-> Error("resolve_columns", "ValueError", {N_Boost, N_ECU_Boost}, <<>>)]
        ELSE IF speed = <<>>
        THEN [ok |-> FALSE, mapping |-> <<>>,
              err |-> Error("resolve_columns", "ValueError", {N_Speed, N_GPS_Speed}, <<>>)]
        ELSE LET mapping ==
                     FixedMapping @@ (N_Boost :> boost[1]) @@ (N_Speed :> speed[1])
                 missing ==
                     {friendly \in DOMAIN mapping : mapping[friendly] \notin available}
             IN  IF missing # {}
                 THEN [ok |-> FALSE, mapping |-> <<>>,
                       err |-> Error("resolve_columns", "ValueError", missing, <<available>>)]
                 ELSE [ok |-> TRUE, mapping |-> mapping, err |-> <<>>]

\* main, line 252: colmap = resolve_columns(df)
ResolveColumns ==
    /\ pc = "read"
    /\ LET r == resolve_columns(Range(columns))
       IN  IF r.ok
           THEN /\ pc' = "resolved"
                /\ colmap' = r.mapping
                /\ UNCHANGED err
           ELSE /\ pc' = "error"
                /\ err' = r.err
                /\ UNCHANGED colmap
    /\ UNCHANGED <<file, header_line, columns, df>>
    /\ NoCursor

(***************************************************************************)
(* nearest_index                                                           *)
(***************************************************************************)
\* np.searchsorted(x_arr, x), side "left": numpy's binary search, which is
\* also what it computes when x_arr is not sorted.
RECURSIVE BinarySearchLeft(_, _, _, _)
BinarySearchLeft(a, key, min_idx, max_idx) ==
    IF min_idx >= max_idx THEN min_idx
    ELSE LET mid_idx == min_idx + ((max_idx - min_idx) \div 2)
         IN  IF Get(a, mid_idx) < key
             THEN BinarySearchLeft(a, key, mid_idx + 1, max_idx)
             ELSE BinarySearchLeft(a, key, min_idx, mid_idx)

searchsorted(x_arr, x) == BinarySearchLeft(x_arr, x, 0, Len(x_arr))

nearest_index_ties_later(x, x_arr) ==
    LET i == searchsorted(x_arr, x)
    IN  IF i <= 0 THEN 0
        ELSE IF i >= Len(x_arr) THEN Len(x_arr) - 1
        ELSE IF (Get(x_arr, i) - x) <= (x - Get(x_arr, i - 1)) THEN i ELSE i - 1

nearest_index(x, x_arr) ==
    LET i == searchsorted(x_arr, x)
    IN  IF i <= 0 THEN 0
        ELSE IF i >= Len(x_arr) THEN Len(x_arr) - 1
        ELSE IF (Get(x_arr, i) - x) < (x - Get(x_arr, i - 1)) THEN i ELSE i - 1

(***************************************************************************)
(* main: the figure and the cursor artifacts                               *)
(***************************************************************************)
\* The series main() plots: the values of column col, one per row of df.
Series(col) == [i \in 1..Len(df) |-> CellValue(file, col, df[i].line)]

\* y_series[ax_i] (0-based): the column colmap gives for PLOTS[ax_i].
y_series(ax_i) == Series(colmap[Get(PLOTS, ax_i)])

\* The names in boost_extra_series and pedal_extra_series.
boost_extra_names == <<N_Boost2, N_Target>>
pedal_extra_names == <<N_Throttle>>

\* The subplot (0-based) of the Boost and of the Pedal channel.
boost_ax_index == CHOOSE i \in 0..Len(PLOTS) - 1 : Get(PLOTS, i) = N_Boost
pedal_ax_index == CHOOSE i \in 0..Len(PLOTS) - 1 : Get(PLOTS, i) = N_Pedal

NoEvent == [kind |-> "none", inaxes |-> FALSE, xdata |-> <<>>]
NoCall == [x_arr |-> <<>>, x |-> 0, ret |-> <<>>]

\* main, lines 254-409 and 553-559: the series, the hidden artifacts, the
\* callbacks, plt.show().  A missing Boost2 or Target column is the KeyError
\* of df["Boost2"], df["Target"].
BuildFigure ==
    /\ pc = "resolved"
    /\ LET available == Range(columns)
           n == Len(PLOTS)
       IN  IF Len(df) = 0
           THEN /\ pc' = "error"
                /\ err' = Error("main", "ValueError", {}, <<>>)
                /\ NoCursor
           ELSE IF N_Boost2 \notin available
           THEN /\ pc' = "error"
                /\ err' = Error("main", "KeyError", {N_Boost2}, <<>>)
                /\ NoCursor
           ELSE IF N_Target \notin available
           THEN /\ pc' = "error"
                /\ err' = Error("main", "KeyError", {N_Target}, <<>>)
                /\ NoCursor
           ELSE /\ pc' = "shown"
                /\ t' = [i \in 1..Len(df) |-> df[i].timestamp]
                /\ vlines' = [i \in 1..n |-> [x |-> df[1].timestamp, visible |-> FALSE]]
                /\ markers' = [i \in 1..n |-> [data |-> <<>>, visible |-> FALSE]]
                /\ value_labels' =
                       [i \in 1..n |->
                           [text |-> <<>>, position |-> <<0, 0>>, visible |-> FALSE]]
                /\ boost_extra_markers' =
                       [j \in 1..Len(boost_extra_names) |->
                           [data |-> <<>>, visible |-> FALSE]]
                /\ boost_extra_labels' =
                       [j \in 1..Len(boost_extra_names) |->
                           [text |-> <<>>, xy |-> <<0, 0>>, xytext |-> <<10, 0>>,
                            visible |-> FALSE]]
                /\ pedal_extra_markers' =
                       [j \in 1..Len(pedal_extra_names) |->
                           [data |-> <<>>, visible |-> FALSE]]
                /\ pedal_extra_labels' =
                       [j \in 1..Len(pedal_extra_names) |->
                           [text |-> <<>>, xy |-> <<0, 0>>, xytext |-> <<10, 0>>,
                            visible |-> FALSE]]
                /\ info_text' = <<>>
                /\ event' = NoEvent
                /\ UNCHANGED <<err, call>>
    /\ UNCHANGED <<file, header_line, columns, df, colmap>>

(***************************************************************************)
(* on_move, on_leave                                                       *)
(***************************************************************************)
\* set_visible(False) on every artist of a list.
SetInvisible(artists) ==
    [i \in 1..Len(artists) |-> [artists[i] EXCEPT !.visible = FALSE]]

\* The readout f"{name}: {int(round(y_val))}" (every value of the model is
\* an integer, the case of the first branch of the format).
Readout(name, y_val) == <<name, y_val>>

\* dy = y_offsets_pts[j] if j < len(y_offsets_pts) else (14 - 14 * j)
OffsetPts(y_offsets_pts, j) ==
    IF j < Len(y_offsets_pts) THEN Get(y_offsets_pts, j) ELSE 14 - 14 * j

\* x < t[0] or x > t[-1]
OutsideTimeRange_lower_only(x) == x < Get(t, 0)

OutsideTimeRange(x) == x < Get(t, 0) \/ x > Get(t, Len(t) - 1)

\* The loop of lines 452-454.
MoveVlines(x_snap) ==
    vlines' = [i \in 1..Len(vlines) |-> [x |-> x_snap, visible |-> TRUE]]

\* The loop of lines 458-475; the label is placed x_offset (1% of the view
\* width) to the right of x_snap, at the height y_val.
MoveMarkers(x_snap, idx) ==
    /\ markers' =
           [i \in 1..Len(markers) |->
               [data |-> <<x_snap, Get(y_series(i - 1), idx)>>, visible |-> TRUE]]
    /\ value_labels' =
           [i \in 1..Len(value_labels) |->
               [text |-> Readout(PLOTS[i], Get(y_series(i - 1), idx)),
                position |-> <<x_snap, Get(y_series(i - 1), idx)>>,
                visible |-> TRUE]]

\* The loops of lines 485-503 and 508-526, on the markers and the labels of
\* one subplot's extra series.
ExtraMarkers_first_sample(names, x_snap, idx) ==
    [j \in 1..Len(names) |->
        [data |-> <<x_snap, Get(Series(names[j]), 0)>>, visible |-> TRUE]]

ExtraMarkers(names, x_snap, idx) ==
    [j \in 1..Len(names) |->
        [data |-> <<x_snap, Get(Series(names[j]), idx)>>, visible |-> TRUE]]

ExtraLabels(names, y_offsets_pts, x_snap, idx) ==
    [j \in 1..Len(names) |->
        [text |-> Readout(names[j], Get(Series(names[j]), idx)),
         xy |-> <<x_snap, Get(Series(names[j]), idx)>>,
         xytext |-> <<10, OffsetPts(y_offsets_pts, j - 1)>>,
         visible |-> TRUE]]

\* Lines 424-438 of on_move, lines 536-550 of on_leave.
HideCursor_keeps_throttle ==
    /\ vlines' = SetInvisible(vlines)
    /\ markers' = SetInvisible(markers)
    /\ value_labels' = SetInvisible(value_labels)
    /\ boost_extra_markers' = SetInvisible(boost_extra_markers)
    /\ boost_extra_labels' = SetInvisible(boost_extra_labels)
    /\ pedal_extra_markers' = SetInvisible(pedal_extra_markers)
    /\ pedal_extra_labels' = pedal_extra_labels
    /\ info_text' = <<>>

HideCursor ==
    /\ vlines' = SetInvisible(vlines)
    /\ markers' = SetInvisible(markers)
    /\ value_labels' = SetInvisible(value_labels)
    /\ boost_extra_markers' = SetInvisible(boost_extra_markers)
    /\ boost_extra_labels' = SetInvisible(boost_extra_labels)
    /\ pedal_extra_markers' = SetInvisible(pedal_extra_markers)
    /\ pedal_extra_labels' = SetInvisible(pedal_extra_labels)
    /\ info_text' = <<>>

\* Lines 442-530 of on_move.
ShowCursor(x) ==
    LET idx == nearest_index(x, t)
        x_snap == Get(t, idx)
    IN  /\ MoveVlines(x_snap)
        /\ MoveMarkers(x_snap, idx)
        /\ boost_extra_markers' = ExtraMarkers(boost_extra_names, x_snap, idx)
        /\ boost_extra_labels' =
               ExtraLabels(boost_extra_names, <<14, 0, -14>>, x_snap, idx)
        /\ pedal_extra_markers' = ExtraMarkers(pedal_extra_names, x_snap, idx)
        /\ pedal_extra_labels' = ExtraLabels(pedal_extra_names, <<14>>, x_snap, idx)
        /\ info_text' = <<x_snap, idx>>

\* The times a pointer can be at: below, at, between and above the samples.
PointerTimes == -1..5

MoveEvents ==
    {[kind |-> "move", inaxes |-> TRUE, xdata |-> <<x>>] : x \in PointerTimes}
    \cup {[kind |-> "move", inaxes |-> FALSE, xdata |-> <<>>]}

LeaveEvent == [kind |-> "leave", inaxes |-> FALSE, xdata |-> <<>>]

on_move_hides_off_axes(ev) ==
    /\ pc = "shown"
    /\ event' = ev
    /\ IF ~ev.inaxes \/ ev.xdata = <<>>
       THEN HideCursor
       ELSE IF OutsideTimeRange(ev.xdata[1])
       THEN HideCursor
       ELSE ShowCursor(ev.xdata[1])
    /\ UNCHANGED <<file, pc, err, header_line, columns, df, colmap, t, call>>

on_move(ev) ==
    /\ pc = "shown"
    /\ event' = ev
    /\ IF ~ev.inaxes \/ ev.xdata = <<>>
       THEN UNCHANGED cursorVars
       ELSE IF OutsideTimeRange(ev.xdata[1])
       THEN HideCursor
       ELSE ShowCursor(ev.xdata[1])
    /\ UNCHANGED <<file, pc, err, header_line, columns, df, colmap, t, call>>

on_leave(ev) ==
    /\ pc = "shown"
    /\ event' = ev
    /\ HideCursor
    /\ UNCHANGED <<file, pc, err, header_line, columns, df, colmap, t, call>>

OnMove == \E ev \in MoveEvents : on_move(ev)

OnLeave == on_leave(LeaveEvent)

(***************************************************************************)
(* The program: main() on a file, then the event loop of plt.show().       *)
(***************************************************************************)
Init ==
    /\ file \in Files
    /\ pc = "start"
    /\ err = <<>>
    /\ header_line = -1
    /\ columns = <<>>
    /\ df = <<>>
    /\ colmap = <<>>
    /\ t = <<>>
    /\ vlines = <<>>
    /\ markers = <<>>
    /\ value_labels = <<>>
    /\ boost_extra_markers = <<>>
    /\ boost_extra_labels = <<>>
    /\ pedal_extra_markers = <<>>
    /\ pedal_extra_labels = <<>>
    /\ info_text = <<>>
    /\ event = NoEvent
    /\ call = NoCall

Next == ReadJb4Csv \/ ResolveColumns \/ BuildFigure \/ OnMove \/ OnLeave

Spec == Init /\ [][Next]_vars

(***************************************************************************)
(* nearest_index called directly on any array and any query.               *)
(***************************************************************************)
SampleTimes == {4 * i : i \in 0..MaxTick}

Queries == -1..(4 * MaxTick + 1)

Arrays == SeqsUpTo(SampleTimes, MaxArr) \ {<<>>}

InitNearest ==
    /\ file = [lines |-> <<>>, header |-> <<>>, data |-> "equal"]
    /\ pc = "call"
    /\ err = <<>>
    /\ header_line = -1
    /\ columns = <<>>
    /\ df = <<>>
    /\ colmap = <<>>
    /\ t = <<>>
    /\ vlines = <<>>
    /\ markers = <<>>
    /\ value_labels = <<>>
    /\ boost_extra_markers = <<>>
    /\ boost_extra_labels = <<>>
    /\ pedal_extra_markers = <<>>
    /\ pedal_extra_labels = <<>>
    /\ info_text = <<>>
    /\ event = NoEvent
    /\ \E a \in Arrays, x \in Queries : call = [x_arr |-> a, x |-> x, ret |-> <<>>]

NearestIndexCall ==
    /\ pc = "call"
    /\ call.ret = <<>>
    /\ call' = [call EXCEPT !.ret = <<nearest_index(call.x, call.x_arr)>>]
    /\ UNCHANGED <<file, pc, err, header_line, columns, df, colmap, t, event>>
    /\ UNCHANGED cursorVars

NextNearest == NearestIndexCall

SpecNearest == InitNearest /\ [][NextNearest]_vars

(***************************************************************************)
(* Vocabulary of the properties.                                           *)
(***************************************************************************)
\* read_jb4_csv has returned a table (main() went on past line 251).
ReadReturned ==
    \/ pc \in {"read", "resolved", "shown"}
    \/ pc = "error" /\ err.where \in {"resolve_columns", "main"}

\* resolve_columns has returned a mapping.
ResolveReturned ==
    \/ pc \in {"resolved", "shown"}
    \/ pc = "error" /\ err.where = "main"

\* The text of a cell is a number.
Parsable(cell) == Len(cell) = 2 /\ cell[1] = "num"

\* The timestamps of the rows of df, in row order.
DfTimes == [i \in 1..Len(df) |-> df[i].timestamp]

\* The physical lines after the first "timestamp" line whose timestamp
\* field is a number, in file order, and their timestamps.
ValidLinesAfter(k) ==
    SortedSeq({i \in 0..Len(file.lines) - 1 :
                  i > k /\ Parsable(Get(file.lines, i).ts)})

FileTimes ==
    LET valid == ValidLinesAfter(header_line)
    IN  [n \in 1..Len(valid) |-> Get(file.lines, valid[n]).ts[2]]

\* Every artist of the cursor, as one sequence.
Artists ==
    vlines \o markers \o value_labels \o boost_extra_markers
    \o boost_extra_labels \o pedal_extra_markers \o pedal_extra_labels

AllShown == (\A i \in 1..Len(Artists) : Artists[i].visible) /\ info_text # <<>>

AllHidden == (\A i \in 1..Len(Artists) : ~Artists[i].visible) /\ info_text = <<>>

\* The last event was a pointer-move over a subplot, at time EventTime.
MovedInAxes == event.kind = "move" /\ event.inaxes /\ event.xdata # <<>>

EventTime == event.xdata[1]

\* The time range the plotted lines span, and the interval from the first
\* to the last sample.
InPlottedRange(x) == \E i, j \in 1..Len(t) : t[i] <= x /\ x <= t[j]

BetweenFirstAndLast(x) == t[1] <= x /\ x <= t[Len(t)]

\* No row of df comes from a line whose timestamp field is no number.
NoUnparsableLeft ==
    \A i \in 1..Len(df) : Parsable(Get(file.lines, df[i].line).ts)

\* The vocabulary of nearest_index: distance, a nearest index, the tie rule,
\* and a finished call on an ascending array.
Dist(a, b) == IF a >= b THEN a - b ELSE b - a

NearestOf(x, x_arr, i) ==
    /\ i \in 0..Len(x_arr) - 1
    /\ \A j \in 0..Len(x_arr) - 1 : Dist(Get(x_arr, i), x) <= Dist(Get(x_arr, j), x)

EarlierOnTie(x, x_arr, i) ==
    \A j \in 0..Len(x_arr) - 2 :
        /\ Get(x_arr, j) < x
        /\ x < Get(x_arr, j + 1)
        /\ x - Get(x_arr, j) = Get(x_arr, j + 1) - x
        => i = j

Called == pc = "call" /\ call.ret # <<>> /\ Ascending(call.x_arr)

\* The field names resolve_columns sees.
Available == Range(columns)

\* resolve_columns has been called and has returned or raised.
ResolveCalled == ResolveReturned \/ (pc = "error" /\ err.where = "resolve_columns")

Unresolved(first, second) == first \notin Available /\ second \notin Available

PriorityOrder ==
    ResolveReturned =>
        /\ N_Boost \in Available => colmap[N_Boost] = N_Boost
        /\ N_Boost \notin Available => colmap[N_Boost] = N_ECU_Boost
        /\ N_Speed \in Available => colmap[N_Speed] = N_Speed
        /\ N_Speed \notin Available => colmap[N_Speed] = N_GPS_Speed
        /\ \A friendly \in DOMAIN colmap : colmap[friendly] \in Available

\* The auxiliary columns the table lacks.
MissingAuxiliary == {N_Boost2, N_Target, N_Throttle} \ Available

\* The rows pd.read_csv handed to read_jb4_csv.
TableRows == pd_read_csv(file, header_line).rows

\* Every vertical line and every marker is at the sample idx (0-based).
AllAtIndex(idx) ==
    LET x_snap == Get(t, idx)
        row == df[idx + 1].line
    IN  /\ \A i \in 1..Len(vlines) : vlines[i].x = x_snap
        /\ \A i \in 1..Len(markers) :
              markers[i].data = <<x_snap, CellValue(file, colmap[PLOTS[i]], row)>>
        /\ \A j \in 1..Len(boost_extra_markers) :
              boost_extra_markers[j].data
                  = <<x_snap, CellValue(file, boost_extra_names[j], row)>>
        /\ \A j \in 1..Len(pedal_extra_markers) :
              pedal_extra_markers[j].data
                  = <<x_snap, CellValue(file, pedal_extra_names[j], row)>>

\* The height of a readout: the data value it is anchored at and its
\* vertical offset in points (a primary readout is a text placed at its
\* value, with no offset).
HeightOfText(lbl) == <<lbl.position[2], 0>>

HeightOfAnnotation(lbl) == <<lbl.xy[2], lbl.xytext[2]>>

Heights(ax_i, extra_labels) ==
    <<HeightOfText(Get(value_labels, ax_i))>>
    \o [j \in 1..Len(extra_labels) |-> HeightOfAnnotation(extra_labels[j])]

PairwiseDistinct(s) == \A i, j \in 1..Len(s) : i # j => s[i] # s[j]

(***************************************************************************)
(* C1.  The cursor is a two-state machine: Hidden at first; Shown after a  *)
(* pointer-move whose time lies within the plotted time range; Hidden      *)
(* after a pointer-move whose time lies outside it and after a             *)
(* pointer-leave, whatever the state before.                               *)
(***************************************************************************)
C1_PlottedRange ==
    pc = "shown" =>
        /\ event = NoEvent => AllHidden
        /\ event.kind = "leave" => AllHidden
        /\ MovedInAxes /\ InPlottedRange(EventTime) => AllShown
        /\ MovedInAxes /\ ~InPlottedRange(EventTime) => AllHidden

\* C1 as amended: the range is the interval from the first sample's time to
\* the last sample's time.
C1_FirstToLast ==
    pc = "shown" =>
        /\ event = NoEvent => AllHidden
        /\ event.kind = "leave" => AllHidden
        /\ MovedInAxes /\ BetweenFirstAndLast(EventTime) => AllShown
        /\ MovedInAxes /\ ~BetweenFirstAndLast(EventTime) => AllHidden

C1_Witness ==
    /\ pc = "shown"
    /\ MovedInAxes
    /\ AllShown
    /\ EventTime > t[1]
    /\ EventTime < t[Len(t)]

(***************************************************************************)
(* C2.  After read_jb4_csv returns, the rows are in ascending order of     *)
(* the timestamp for every input file, and no row left has an unparsable   *)
(* timestamp.                                                              *)
(***************************************************************************)
C2_AlwaysSorted == ReadReturned => Ascending(DfTimes) /\ NoUnparsableLeft

\* C2 as amended: ascending when the file's parsable timestamps are.
C2_SortedIfFileIs ==
    ReadReturned =>
        /\ NoUnparsableLeft
        /\ Ascending(FileTimes) => Ascending(DfTimes)

C2_Witness ==
    /\ ReadReturned
    /\ Len(df) >= 2
    /\ df[1].timestamp < df[2].timestamp
    /\ \E i \in 0..Len(file.lines) - 1 :
          i > header_line /\ Get(file.lines, i).kind = "text"

(***************************************************************************)
(* C3.  When the first line starting with "timestamp" is the physical line *)
(* k, read_jb4_csv takes the field names from line k, no line before k is  *)
(* a data row, and the data rows are the lines after k.                    *)
(***************************************************************************)
C3_HeaderIsLineK ==
    pc # "start" /\ header_line >= 0 =>
        /\ ReadReturned
        /\ columns = CleanColumns(file.header)
        /\ \A i \in 1..Len(df) : df[i].line > header_line
        /\ \A n \in 1..Len(ValidLinesAfter(header_line)) :
              \E i \in 1..Len(df) : df[i].line = ValidLinesAfter(header_line)[n]

(***************************************************************************)
(* C4.  For a non-empty ascending x_arr, nearest_index(x, x_arr) is an     *)
(* index of an element nearest to x; 0 for x at or below the first         *)
(* element; len - 1 for x at or above the last; the earlier index when x   *)
(* is halfway between two adjacent elements.                               *)
(***************************************************************************)
C4_ClampsAtLast ==
    Called =>
        LET x == call.x
            a == call.x_arr
            i == call.ret[1]
        IN  /\ NearestOf(x, a, i)
            /\ x <= a[1] => i = 0
            /\ x >= a[Len(a)] => i = Len(a) - 1
            /\ EarlierOnTie(x, a, i)

\* C4 as amended: a query equal to the last element returns the first index
\* that holds that value, which is len - 1 only when the value occurs once.
C4_FirstOfEqualLast ==
    Called =>
        LET x == call.x
            a == call.x_arr
            i == call.ret[1]
        IN  /\ NearestOf(x, a, i)
            /\ x <= a[1] => i = 0
            /\ x > a[Len(a)] => i = Len(a) - 1
            /\ x = a[Len(a)] =>
                  /\ Get(a, i) = x
                  /\ \A j \in 0..Len(a) - 1 : Get(a, j) = x => i <= j
            /\ EarlierOnTie(x, a, i)

C4_Witness ==
    /\ Called
    /\ call.x = call.x_arr[Len(call.x_arr)]
    /\ call.x_arr[1] < call.x
    /\ call.ret[1] < Len(call.x_arr) - 1

C6_AuxiliarySchemaError ==
    ReadReturned /\ Len(df) > 0 /\ MissingAuxiliary # {} /\ pc \in {"error", "shown"} =>
        /\ pc = "error"
        /\ err.kind = "ValueError"
        /\ MissingAuxiliary \subseteq err.names
        /\ err.available = <<Available>>

(***************************************************************************)
(* C7.  read_jb4_csv drops every row of the table whose timestamp is       *)
(* unparsable, keeps every row whose timestamp is parsable, and keeps the  *)
(* kept rows in the order they have in the file.                           *)
(***************************************************************************)
C7_DropsUnparsableKeepsOrder ==
    ReadReturned =>
        /\ \A n \in 1..Len(TableRows) :
              Parsable(TableRows[n].timestamp)
              <=> \E i \in 1..Len(df) :
                     /\ df[i].line = TableRows[n].line
                     /\ df[i].timestamp = TableRows[n].timestamp[2]
        /\ \A i \in 1..Len(df) : \E n \in 1..Len(TableRows) : TableRows[n].line = df[i].line
        /\ \A i, j \in 1..Len(df) : i < j => df[i].line < df[j].line

C7_Witness ==
    /\ ReadReturned
    /\ Len(df) = 2
    /\ df[1].timestamp > df[2].timestamp
    /\ \E n \in 1..Len(TableRows) :
          /\ ~Parsable(TableRows[n].timestamp)
          /\ df[1].line < TableRows[n].line
          /\ TableRows[n].line < df[2].line

(***************************************************************************)
(* C8.  While the cursor is shown there is one sample index idx, the       *)
(* nearest_index of the pointer's time, such that every vertical line is   *)
(* at t[idx] and the marker of every series, primary and auxiliary, is at  *)
(* (t[idx], the series' value at idx).                                     *)
(***************************************************************************)
C8_OneIndexEverywhere ==
    pc = "shown" /\ AllShown =>
        /\ \E idx \in 0..Len(t) - 1 : AllAtIndex(idx)
        /\ MovedInAxes => AllAtIndex(nearest_index(EventTime, t))

C8_Witness ==
    /\ pc = "shown"
    /\ AllShown
    /\ MovedInAxes
    /\ nearest_index(EventTime, t) > 0
    /\ file.data = "distinct"

(***************************************************************************)
(* C9.  The readouts of the series that share a subplot (Boost, Boost2,    *)
(* Target; Pedal, Throttle) have pairwise distinct vertical offsets, so    *)
(* two of them with equal values are never at the same height.             *)
(***************************************************************************)
C9_ReadoutsNeverCoincide ==
    pc = "shown" /\ AllShown =>
        /\ PairwiseDistinct(Heights(boost_ax_index, boost_extra_labels))
        /\ PairwiseDistinct(Heights(pedal_ax_index, pedal_extra_labels))

(***************************************************************************)
(* C10.  After any sequence of pointer events the cursor is all or         *)
(* nothing: every line, marker and readout is visible and the info text    *)
(* is not empty, or all are hidden and the info text is empty.             *)
(***************************************************************************)
C10_AllOrNothing == pc = "shown" => AllShown \/ AllHidden

C10_Witness ==
    /\ pc = "shown"
    /\ AllHidden
    /\ event.kind = "leave"
    /\ markers[1].data # <<>>
    /\ pedal_extra_labels[1].text # <<>>

(***************************************************************************)
(* C11.  A pointer-move that is not over any subplot (no axes under the    *)
(* pointer, no time coordinate) leaves the whole cursor state as it was:   *)
(* visibility, marker positions, readouts and info text; so a shown        *)
(* cursor stops being shown only on a pointer-leave or on a move over a    *)
(* subplot outside the interval from the first to the last sample.         *)
(***************************************************************************)
C11_OffAxesMoveChangesNothing ==
    [][/\ (event'.kind = "move" /\ ~event'.inaxes) => UNCHANGED cursorVars
       /\ (pc = "shown" /\ AllShown /\ ~AllShown') =>
              \/ event'.kind = "leave"
              \/ /\ event'.kind = "move"
                 /\ event'.inaxes
                 /\ ~BetweenFirstAndLast(event'.xdata[1])]_vars

C11_Witness ==
    /\ pc = "shown"
    /\ event.kind = "move"
    /\ ~event.inaxes
    /\ AllShown
    /\ info_text[2] > 0

====
